---- MODULE Spec2Model ----
(***************************************************************************)
(* Model of lib/ansible/modules/cloud/azure/azure_rm_storageblob.py:       *)
(* AzureRMStorageBlob.exec_module reconciling one container and, when      *)
(* targeted, one blob of a remote blob store against the declared state.   *)
(*                                                                         *)
(* The remote store and the local filesystem are the environment.  The     *)
(* store keeps exactly what a successful call hands it, answers a call on  *)
(* a missing resource with AzureMissingResourceHttpError, and any call the *)
(* module guards with "except AzureHttpError" may also fail for a reason   *)
(* of its own (the fault inputs of the actions).                           *)
(*                                                                         *)
(* One invocation is the run of pc from "start" to "done" or "failed".     *)
(* Two further phases start a second invocation, so that statements which  *)
(* relate two invocations can be checked: Rerun (the same parameters on    *)
(* the state the first invocation left) and Preview (check mode, on the    *)
(* state the first invocation started from).                               *)
(***************************************************************************)
EXTENDS Integers, Sequences, FiniteSets, TLC

\* Python's None, where a string is expected.
Null == "<None>"

\* Most blobs, besides the targeted one, that the container holds initially.
MaxOtherBlobs == 1

\* Truthiness of an optional string ("if self.blob", "self.content_type or ...").
Truthy(s) == s /= Null /\ s /= ""

\* An optional path parameter: given = FALSE is None, path = <<>> is ''.
NoPath == [given |-> FALSE, path |-> <<>>]
PathTruthy(p) == p.given /\ p.path /= <<>>

-----------------------------------------------------------------------------
(* NAME_PATTERN = ^(?!-)(?!.*--)[a-z0-9\-]+$ on a name given as its characters *)

NameChars == {"f", "o", "0", "-"}

NAME_PATTERN(name) ==
    /\ Len(name) > 0
    /\ \A i \in 1..Len(name) : name[i] \in NameChars
    /\ name[1] /= "-"
    /\ \A i \in 1..(Len(name) - 1) : ~(name[i] = "-" /\ name[i + 1] = "-")

-----------------------------------------------------------------------------
(* Paths are sequences of one-character tokens; "/" separates components. *)

RECURSIVE LastSlash(_, _)
LastSlash(p, i) == IF i = 0 THEN 0 ELSE IF p[i] = "/" THEN i ELSE LastSlash(p, i - 1)

\* os.path.basename: what follows the last "/".
Basename(p) == SubSeq(p, LastSlash(p, Len(p)) + 1, Len(p))

IsPrefix(old, p) == Len(old) <= Len(p) /\ SubSeq(p, 1, Len(old)) = old

\* str.replace(old, ''): every occurrence of old removed, left to right.
RECURSIVE StrRemove(_, _)
StrRemove(p, old) ==
    IF old = <<>> \/ p = <<>> THEN p
    ELSE IF IsPrefix(old, p) THEN StrRemove(SubSeq(p, Len(old) + 1, Len(p)), old)
    ELSE <<Head(p)>> \o StrRemove(Tail(p), old)

\* The first "/" of p at or after i, or Len(p) + 1.
RECURSIVE FirstSlash(_, _)
FirstSlash(p, i) == IF i > Len(p) THEN i ELSE IF p[i] = "/" THEN i ELSE FirstSlash(p, i + 1)

\* The components of a path (each its characters), empty ones dropped.
RECURSIVE Components(_)
Components(p) ==
    IF p = <<>> THEN <<>>
    ELSE IF Head(p) = "/" THEN Components(Tail(p))
    ELSE LET n == FirstSlash(p, 1) - 1
         IN  <<SubSeq(p, 1, n)>> \o Components(SubSeq(p, n + 1, Len(p)))

IsAbs(p) == p /= <<>> /\ p[1] = "/"

\* The filesystem's key of a path.
Key(p) == [abs |-> IsAbs(p), comps |-> Components(p)]
ParentKey(k) == [abs |-> k.abs, comps |-> SubSeq(k.comps, 1, Len(k.comps) - 1)]

\* os.path.isdir: '' is no directory; the root and the working directory are.
IsDir(f, p) == p /= <<>> /\ (Key(p).comps = <<>> \/ Key(p) \in f.dirs)

\* os.path.isfile.
IsFile(f, p) == \E e \in f.files : e.key = Key(p)

\* os.makedirs(p): the directory and its ancestors.
MakeDirs(f, p) ==
    LET k == Key(p)
    IN  [f EXCEPT !.dirs = @ \cup {[abs |-> k.abs, comps |-> SubSeq(k.comps, 1, n)] :
                                      n \in 1..Len(k.comps)}]

\* Whether a file can be written at p: a file name under an existing directory.
CanWrite(f, p) ==
    LET k == Key(p)
    IN  /\ Basename(p) /= <<>>
        /\ k \notin f.dirs
        /\ (ParentKey(k).comps = <<>> \/ ParentKey(k) \in f.dirs)

WriteFile(f, p, payload) ==
    [f EXCEPT !.files = {e \in @ : e.key /= Key(p)} \cup {[key |-> Key(p), payload |-> payload]}]
-----------------------------------------------------------------------------
(* The remote store: one container and the blobs in it. *)

\* The six fields of a blob's content settings.
AllNull ==
    [content_type |-> Null, content_encoding |-> Null, content_language |-> Null,
     content_disposition |-> Null, cache_control |-> Null, content_md5 |-> Null]

CS(ct, ce, md5) ==
    [AllNull EXCEPT !.content_type = ct, !.content_encoding = ce, !.content_md5 = md5]

NoBlob == [exists |-> FALSE, payload |-> Null, tags |-> {}, content_settings |-> AllNull]

NoContainer == [exists |-> FALSE, tags |-> {}, others |-> 0, blob |-> NoBlob]

\* Tags are sets of <<key, value>> pairs with one value per key.
Keys(tags) == {t[1] : t \in tags}

\* The number of blobs list_blobs returns.
BlobCount(st) == st.others + (IF st.blob.exists THEN 1 ELSE 0)

\* The python dict get_container returns: {} or name, tags, last_modified.
EmptyContainerObj == [present |-> FALSE, name |-> <<>>, tags |-> {}]

\* The python dict get_blob returns: {} or name, tags, ..., content_settings;
\* has_tags is the 'tags' key, which exec_module adds to an empty dict.
EmptyBlobObj ==
    [present |-> FALSE, has_tags |-> FALSE, tags |-> {}, content_settings |-> AllNull]

\* Truthiness of the dicts: a non-empty dict.
ContainerTruthy(o) == o.present
BlobTruthy(o) == o.present \/ o.has_tags

-----------------------------------------------------------------------------
VARIABLES
    params,         \* the declared state and the flags of the invocation
    store,          \* the remote store
    fs,             \* the local filesystem
    pc,             \* where exec_module is: a step, "done" or "failed"
    container_obj,  \* self.container_obj
    blob_obj,       \* self.blob_obj
    dest,           \* self.dest, which dest_is_valid rewrites
    results,        \* self.results
    calls,          \* the remote calls issued in this invocation, in order
    entered,        \* the reconciling methods entered in this invocation, in order
    failure,        \* why the invocation failed: validation, remote, crash
    faulty,         \* a call of this invocation failed for a reason of the store's own
    phase,          \* first, again (Rerun) or preview (Preview)
    world0,         \* the store and filesystem this invocation started from
    first           \* the outcome of the first invocation

vars == <<params, store, fs, pc, container_obj, blob_obj, dest, results, calls, entered,
          failure, faulty, phase, world0, first>>

\* The state of one invocation and of its environment, as the methods pass it on.
Self ==
    [store |-> store, fs |-> fs, pc |-> pc, container_obj |-> container_obj,
     blob_obj |-> blob_obj, dest |-> dest, results |-> results, calls |-> calls,
     entered |-> entered, failure |-> failure, faulty |-> faulty]

Becomes(m) ==
    /\ store' = m.store
    /\ fs' = m.fs
    /\ pc' = m.pc
    /\ container_obj' = m.container_obj
    /\ blob_obj' = m.blob_obj
    /\ dest' = m.dest
    /\ results' = m.results
    /\ calls' = m.calls
    /\ entered' = m.entered
    /\ failure' = m.failure
    /\ faulty' = m.faulty
    /\ UNCHANGED <<params, phase, world0, first>>

\* self.results as __init__ builds it.
InitResults ==
    [changed |-> FALSE, actions |-> <<>>, container |-> EmptyContainerObj,
     blob |-> EmptyBlobObj]

-----------------------------------------------------------------------------
(* Helpers of the methods *)

\* self.fail: fail_json ends the invocation.
fail(m, kind) == [m EXCEPT !.pc = "failed", !.failure = kind]

Call(m, name) == [m EXCEPT !.calls = Append(@, [name |-> name, ok |-> TRUE])]

Enter(m, name) == [m EXCEPT !.entered = Append(@, name)]

\* Mutant of RemoteError: the error is logged and the method goes on.
RemoteError_Swallowed(m, name, injected) ==
    [m EXCEPT !.calls = Append(@, [name |-> name, ok |-> FALSE]),
              !.faulty = @ \/ injected]

\* "except AzureHttpError as exc: self.fail(...)" around a remote call that raised.
RemoteError(m, name, injected) ==
    [fail(m, "remote") EXCEPT !.calls = Append(@, [name |-> name, ok |-> FALSE]),
                              !.faulty = @ \/ injected]

\* A recording that raises the flag and appends nothing.
Recorded_ChangedOnly(r, kind, path) ==
    [r EXCEPT !.changed = TRUE]

\* self.results['changed'] = True; self.results['actions'].append(...)
Recorded(r, kind, path) ==
    [r EXCEPT !.changed = TRUE,
              !.actions = Append(@, [kind |-> kind, container |-> params.container,
                                     blob |-> params.blob, path |-> path])]

get_container(st) ==
    IF st.exists
    THEN [present |-> TRUE, name |-> params.container, tags |-> st.tags]
    ELSE EmptyContainerObj

get_blob(st) ==
    IF Truthy(params.blob) /\ st.exists /\ st.blob.exists
    THEN [present |-> TRUE, has_tags |-> TRUE, tags |-> st.blob.tags,
          content_settings |-> st.blob.content_settings]
    ELSE EmptyBlobObj

\* self.container_obj = self.get_container(), with its remote read.
RefreshContainer(m) ==
    [Call(m, "get_container_properties") EXCEPT !.container_obj = get_container(m.store)]

\* self.blob_obj = self.get_blob(); the read is issued only for a blob name.
RefreshBlob(m) ==
    [(IF Truthy(params.blob) THEN Call(m, "get_blob_properties") ELSE m)
        EXCEPT !.blob_obj = get_blob(m.store)]

\* update_tags of the base class: the declared tags merged into the current
\* ones, or replacing them when purge_tags is set; no declared tags, no change.
update_tags(current) ==
    LET declared == params.tags
        merged == IF ~declared.given THEN current
                  ELSE IF params.purge_tags THEN declared.map
                  ELSE {t \in current : t[1] \notin Keys(declared.map)} \cup declared.map
    IN  [changed |-> merged /= current, tags |-> merged]

\* "self.content_type or self.content_encoding or ... or self.content_md5"
AnyContent ==
    \/ Truthy(params.content.content_type)
    \/ Truthy(params.content.content_encoding)
    \/ Truthy(params.content.content_language)
    \/ Truthy(params.content.content_disposition)
    \/ Truthy(params.content.cache_control)
    \/ Truthy(params.content.content_md5)

\* The payload of the file at src.
SrcPayload == "p_src"

-----------------------------------------------------------------------------
(* The methods.  Each maps the invocation's state m to the state it leaves;  *)
(* fault says whether the method's guarded remote call fails on its own.     *)

create_container(m, fault) ==
    LET e == Enter(m, "create_container")
        \* when a blob is present, then tags are assigned at the blob level
        tags == IF ~Truthy(params.blob) /\ params.tags.given /\ params.tags.map /= {}
                THEN params.tags.map ELSE {}
        made == IF params.check_mode THEN e
                ELSE [Call(e, "create_container") EXCEPT
                         !.store = [exists |-> TRUE, tags |-> tags, others |-> 0,
                                    blob |-> NoBlob]]
        got == RefreshContainer(made)
    IN  IF ~params.check_mode /\ fault
        THEN RemoteError(e, "create_container", fault)
        ELSE [got EXCEPT !.results = [Recorded(@, "created container", <<>>) EXCEPT
                                         !.container = got.container_obj]]

upload_blob(m, fault) ==
    LET e == Enter(m, "upload_blob")
        content_settings == IF AnyContent THEN params.content ELSE AllNull
        made == IF params.check_mode THEN e
                ELSE [Call(e, "create_blob_from_path") EXCEPT
                         !.store.blob = [exists |-> TRUE, payload |-> SrcPayload,
                                         tags |-> IF params.tags.given THEN params.tags.map
                                                  ELSE {},
                                         content_settings |-> content_settings]]
        got == RefreshBlob(made)
    IN  IF ~params.check_mode /\ (fault \/ ~e.store.exists)
        THEN RemoteError(e, "create_blob_from_path", fault)
        ELSE [got EXCEPT !.results = [Recorded(@, "created blob", params.src.path) EXCEPT
                                         !.container = got.container_obj,
                                         !.blob = got.blob_obj]]

download_blob(m, fault) ==
    LET e == Enter(m, "download_blob")
        missing == ~(e.store.exists /\ e.store.blob.exists)
        made == IF params.check_mode THEN e
                ELSE [Call(e, "get_blob_to_path") EXCEPT
                         !.fs = WriteFile(@, e.dest, e.store.blob.payload)]
    IN  IF ~params.check_mode /\ (fault \/ missing \/ ~CanWrite(e.fs, e.dest))
        THEN RemoteError(e, "get_blob_to_path", fault)
        ELSE [made EXCEPT !.results = [Recorded(@, "downloaded blob", made.dest) EXCEPT
                                          !.container = made.container_obj,
                                          !.blob = made.blob_obj]]

\* Whether the file at src can be uploaded; otherwise the invocation fails.
src_is_valid(m) ==
    IF m.fs.src_kind = "file" THEN m ELSE fail(m, "validation")

\* The last lines of dest_is_valid: an existing file is kept unless forced.
DestFinal(m) ==
    [m |-> m, ok |-> ~(IsFile(m.fs, m.dest) /\ ~params.force)]

\* dest_is_valid: the state it leaves and what it returns.  The modelled paths
\* hold no "~" and no "$", which expanduser and expandvars would rewrite.
dest_is_valid(m) ==
    IF params.check_mode THEN [m |-> m, ok |-> TRUE]
    ELSE IF Basename(m.dest) = <<>>
    THEN \* dest is a directory
         IF IsDir(m.fs, m.dest)
         THEN DestFinal([m EXCEPT !.dest = Append(@, params.blob)])
         ELSE \* os.makddirs: AttributeError, which "except IOError" lets through
              [m |-> fail(m, "crash"), ok |-> FALSE]
    ELSE LET path == StrRemove(m.dest, Basename(m.dest))
         IN  IF IsDir(m.fs, path) THEN DestFinal(m)
             ELSE IF path = <<>>
             THEN \* os.makedirs(''): OSError, which "except IOError" lets through
                  [m |-> fail(m, "crash"), ok |-> FALSE]
             ELSE DestFinal([m EXCEPT !.fs = MakeDirs(@, path)])

\* Mutant of delete_container: the check_mode guard of the remote call is missing.
delete_container_Unguarded(m, fault) ==
    LET e == Enter(m, "delete_container")
    IN  IF fault \/ ~e.store.exists
        THEN RemoteError(e, "delete_container", fault)
        ELSE [Call(e, "delete_container") EXCEPT
                 !.store = NoContainer,
                 !.results = Recorded(@, "deleted container", <<>>)]

delete_container(m, fault) ==
    LET e == Enter(m, "delete_container")
        made == IF params.check_mode THEN e
                ELSE [Call(e, "delete_container") EXCEPT !.store = NoContainer]
    IN  IF ~params.check_mode /\ (fault \/ ~e.store.exists)
        THEN RemoteError(e, "delete_container", fault)
        ELSE [made EXCEPT !.results = Recorded(@, "deleted container", <<>>)]

\* container_has_blobs: the state it leaves and what it returns.
container_has_blobs(m, fault) ==
    IF fault \/ ~m.store.exists
    THEN [m |-> RemoteError(m, "list_blobs", fault), has |-> FALSE]
    ELSE [m |-> Call(m, "list_blobs"), has |-> BlobCount(m.store) > 0]

delete_blob(m, fault) ==
    LET e == Enter(m, "delete_blob")
        made == IF params.check_mode THEN e
                ELSE [Call(e, "delete_blob") EXCEPT !.store.blob = NoBlob]
    IN  IF ~params.check_mode /\ (fault \/ ~(e.store.exists /\ e.store.blob.exists))
        THEN RemoteError(e, "delete_blob", fault)
        ELSE [made EXCEPT !.results = [Recorded(@, "deleted blob", <<>>) EXCEPT
                                          !.container = made.container_obj]]

update_container_tags(m, tags, fault) ==
    LET e == Enter(m, "update_container_tags")
        made == IF params.check_mode THEN e
                ELSE [Call(e, "set_container_metadata") EXCEPT !.store.tags = tags]
        got == RefreshContainer(made)
    IN  IF ~params.check_mode /\ (fault \/ ~e.store.exists)
        THEN RemoteError(e, "set_container_metadata", fault)
        ELSE [got EXCEPT !.results = [Recorded(@, "updated container tags", <<>>) EXCEPT
                                         !.container = got.container_obj]]

update_blob_tags(m, tags, fault) ==
    LET e == Enter(m, "update_blob_tags")
        made == IF params.check_mode THEN e
                ELSE [Call(e, "set_blob_metadata") EXCEPT !.store.blob.tags = tags]
        got == RefreshBlob(made)
    IN  IF ~params.check_mode /\ (fault \/ ~(e.store.exists /\ e.store.blob.exists))
        THEN RemoteError(e, "set_blob_metadata", fault)
        ELSE [got EXCEPT !.results = [Recorded(@, "updated blob tags", <<>>) EXCEPT
                                         !.container = got.container_obj,
                                         !.blob = got.blob_obj]]

\* Mutant of SettingsDiffer: the content type alone is compared.
SettingsDiffer_TypeOnly(m) ==
    m.blob_obj.content_settings.content_type /= params.content.content_type

\* blob_content_settings_differ, once a content field is truthy: the dict built
\* from the six parameters against self.blob_obj['content_settings'].
SettingsDiffer(m) == m.blob_obj.content_settings /= params.content

update_blob_content_settings(m, fault) ==
    LET e == Enter(m, "update_blob_content_settings")
        made == IF params.check_mode THEN e
                ELSE [Call(e, "set_blob_properties") EXCEPT
                         !.store.blob.content_settings = params.content]
        got == RefreshBlob(made)
    IN  IF ~params.check_mode /\ (fault \/ ~(e.store.exists /\ e.store.blob.exists))
        THEN RemoteError(e, "set_blob_properties", fault)
        ELSE [got EXCEPT !.results = [Recorded(@, "updated blob content settings", <<>>)
                                         EXCEPT !.container = got.container_obj,
                                                !.blob = got.blob_obj]]

-----------------------------------------------------------------------------
(* The decisions of exec_module *)

\* Mutants of UploadRefused: force is not looked at; nothing is refused.
UploadRefused_IgnoringForce(m) == BlobTruthy(m.blob_obj)
UploadRefused_Never(m) == FALSE

\* "if self.blob_obj and not self.force": the upload is refused.
UploadRefused(m) == BlobTruthy(m.blob_obj) /\ ~params.force

\* Mutant of MayDeleteContainer: a container that holds blobs is deleted unforced.
MayDeleteContainer_Always(has_blobs) == TRUE

\* The container is deleted when it holds no blobs, or when forced.
MayDeleteContainer(has_blobs) == ~has_blobs \/ params.force

\* Mutant of ContainerTagged: the container is tagged with a blob targeted too.
ContainerTagged_Always == TRUE

\* "elif self.container_obj and not self.blob": the tags go to the container.
ContainerTagged == ~Truthy(params.blob)

\* The step after a method returned: none once the invocation failed.
Continue(m, next) == IF m.pc = "failed" THEN m ELSE [m EXCEPT !.pc = next]

\* The steps of exec_module after the container step and after the transfer.
AfterContainer == IF Truthy(params.blob) THEN "transfer" ELSE "done"
AfterTransfer == "tags"
AfterTags == "content"

-----------------------------------------------------------------------------
(* The steps of exec_module *)

\* The name check that opens exec_module.
Validate ==
    /\ pc = "start"
    /\ Becomes(IF NAME_PATTERN(params.container) THEN [Self EXCEPT !.pc = "read"]
               ELSE fail(Self, "validation"))

\* self.container_obj = self.get_container(); self.blob_obj = self.get_blob()
ReadCurrent ==
    /\ pc = "read"
    /\ LET c == RefreshContainer(Self)
           b == IF params.blob /= Null THEN RefreshBlob(c) ELSE c
       IN  Becomes([b EXCEPT !.pc = IF params.state = "present" THEN "container"
                                    ELSE "absent"])

\* state == 'present': create the container, or update its tags.
PresentContainer ==
    /\ pc = "container"
    /\ \E fault \in BOOLEAN :
          LET m == Self
              ut == update_tags(m.container_obj.tags)
              tagged == [m EXCEPT !.container_obj.tags = ut.tags]
              n == IF ~ContainerTruthy(m.container_obj) THEN create_container(m, fault)
                   ELSE IF ContainerTagged
                   THEN IF ut.changed THEN update_container_tags(tagged, ut.tags, fault)
                        ELSE tagged
                   ELSE m
          IN  Becomes(Continue(n, AfterContainer))

\* "if self.src and self.src_is_valid(): ... elif self.dest and self.dest_is_valid():"
Transfer(m, fault) ==
    IF PathTruthy(params.src)
    THEN LET v == src_is_valid(m)
         IN  IF v.pc = "failed" THEN v
             ELSE IF UploadRefused(v) THEN v
             ELSE upload_blob(v, fault)
    ELSE IF PathTruthy(params.dest)
    THEN LET d == dest_is_valid(m)
         IN  IF d.m.pc = "failed" THEN d.m
             ELSE IF d.ok THEN download_blob(d.m, fault)
             ELSE d.m
    ELSE m

\* create, update or download blob
PresentTransfer ==
    /\ pc = "transfer"
    /\ \E fault \in BOOLEAN : Becomes(Continue(Transfer(Self, fault), AfterTransfer))

\* The tags of the blob: self.blob_obj['tags'] is assigned, then updated if they differ.
PresentTags ==
    /\ pc = "tags"
    /\ \E fault \in BOOLEAN :
          LET m == Self
              ut == update_tags(IF m.blob_obj.has_tags THEN m.blob_obj.tags ELSE {})
              tagged == [m EXCEPT !.blob_obj.tags = ut.tags, !.blob_obj.has_tags = TRUE]
              n == IF ut.changed THEN update_blob_tags(tagged, ut.tags, fault) ELSE tagged
          IN  Becomes(Continue(n, AfterTags))

\* "if self.blob_content_settings_differ(): self.update_blob_content_settings()";
\* self.blob_obj['content_settings'] of a dict without the key is a KeyError.
ContentSettings(m, fault) ==
    IF ~AnyContent THEN m
    ELSE IF ~m.blob_obj.present THEN fail(m, "crash")
    ELSE IF SettingsDiffer(m) THEN update_blob_content_settings(m, fault)
    ELSE m

PresentContent ==
    /\ pc = "content"
    /\ \E fault \in BOOLEAN : Becomes(Continue(ContentSettings(Self, fault), "done"))

\* state == 'absent': delete the container, or the blob.
Absent ==
    /\ pc = "absent"
    /\ \E listFault, fault \in BOOLEAN :
          LET m == Self
              h == container_has_blobs(m, listFault)
              n == IF ContainerTruthy(m.container_obj) /\ ~Truthy(params.blob)
                   THEN IF h.m.pc = "failed" THEN h.m
                        ELSE IF MayDeleteContainer(h.has) THEN delete_container(h.m, fault)
                        ELSE h.m
                   ELSE IF ContainerTruthy(m.container_obj) /\ BlobTruthy(m.blob_obj)
                   THEN delete_blob(m, fault)
                   ELSE m
          IN  Becomes(Continue(n, "done"))

-----------------------------------------------------------------------------
(* A second invocation *)

Finished == pc \in {"done", "failed"}

Outcome == [pc |-> pc, changed |-> results.changed, actions |-> results.actions]

\* A new module instance ("__init__") run on store st and filesystem f.
Invoke(st, f) ==
    /\ store' = st
    /\ fs' = f
    /\ pc' = "start"
    /\ container_obj' = EmptyContainerObj
    /\ blob_obj' = EmptyBlobObj
    /\ dest' = params.dest.path
    /\ results' = InitResults
    /\ calls' = <<>>
    /\ entered' = <<>>
    /\ failure' = "none"
    /\ faulty' = FALSE
    /\ world0' = [store |-> st, fs |-> f]
    /\ first' = Outcome

\* The same task run again on what a completed normal invocation left.
Rerun ==
    /\ phase = "first"
    /\ pc = "done"
    /\ ~params.check_mode
    /\ phase' = "again"
    /\ UNCHANGED params
    /\ Invoke(store, fs)

\* The same task in check mode on what the normal invocation started from.
Preview ==
    /\ phase = "first"
    /\ Finished
    /\ ~params.check_mode
    /\ ~faulty
    /\ phase' = "preview"
    /\ params' = [params EXCEPT !.check_mode = TRUE]
    /\ Invoke(world0.store, world0.fs)

-----------------------------------------------------------------------------
(* The inputs: parameters, store and filesystem of the first invocation *)

ValidName == <<"f", "o", "o">>
BadNames == {<<"-", "f">>, <<"f", "-", "-", "o">>, <<"F">>, <<>>}

BlobName == "b"

CurrentTags == {{}, {<<"k", "1">>}, {<<"k", "2">>, <<"j", "1">>}}

NoTags == [given |-> FALSE, map |-> {}]
DeclaredTags == {NoTags, [given |-> TRUE, map |-> {}], [given |-> TRUE, map |-> {<<"k", "1">>}]}

CurrentSettings == {AllNull, CS("a", Null, Null), CS("a", Null, "m")}
DeclaredSettings == {AllNull, CS("", Null, Null), CS("a", Null, Null)}

BlobPayload == "p_blob"
DestPayload == "p_dest"

StoredBlobs ==
    {[exists |-> TRUE, payload |-> BlobPayload, tags |-> t, content_settings |-> c] :
        t \in CurrentTags, c \in CurrentSettings}

PlainBlob ==
    [exists |-> TRUE, payload |-> BlobPayload, tags |-> {}, content_settings |-> AllNull]

Containers(tagsets, blobs) ==
    {[exists |-> TRUE, tags |-> t, others |-> n, blob |-> b] :
        t \in tagsets, n \in 0..MaxOtherBlobs, b \in blobs}

NoFiles == [src_kind |-> "missing", dirs |-> {}, files |-> {}]

SrcPath == [given |-> TRUE, path |-> <<"s">>]
EmptyPath == [given |-> TRUE, path |-> <<>>]

DestPaths == {<<"d", "/", "f">>, <<"d", "/">>, <<"f">>, <<"d", "/", "d">>}

\* The file a download to dest writes.
Target(d) == IF Basename(d) = <<>> THEN Append(d, BlobName) ELSE d

\* The filesystems a download to dest may meet: the directory of the target
\* missing, there without the file, or there with it.
DestFilesystems(d) ==
    LET parent == ParentKey(Key(Target(d)))
        there == [NoFiles EXCEPT !.dirs = IF parent.comps = <<>> THEN {} ELSE {parent}]
    IN  {NoFiles, there,
         [there EXCEPT !.files = {[key |-> Key(Target(d)), payload |-> DestPayload]}]}

\* src, dest (mutually exclusive) and the filesystem they meet.
Transfers ==
    {[src |-> NoPath, dest |-> NoPath, fs |-> NoFiles],
     [src |-> EmptyPath, dest |-> NoPath, fs |-> NoFiles],
     [src |-> NoPath, dest |-> EmptyPath, fs |-> NoFiles]}
    \cup {[src |-> SrcPath, dest |-> NoPath, fs |-> [NoFiles EXCEPT !.src_kind = k]] :
            k \in {"file", "missing", "directory", "unreadable"}}
    \cup UNION {{[src |-> NoPath, dest |-> [given |-> TRUE, path |-> d], fs |-> f] :
                   f \in DestFilesystems(d)} : d \in DestPaths}

Params(check, name, blob, tr, force, state, tags, purge, content) ==
    [check_mode |-> check, container |-> name, blob |-> blob, src |-> tr.src,
     dest |-> tr.dest, force |-> force, state |-> state, tags |-> tags,
     purge_tags |-> purge, content |-> content]

NoTransfer == [src |-> NoPath, dest |-> NoPath, fs |-> NoFiles]

\* Transfers and content settings given where exec_module has no use for them.
StrayTransfers ==
    {NoTransfer,
     [src |-> SrcPath, dest |-> NoPath, fs |-> NoFiles],
     [src |-> NoPath, dest |-> [given |-> TRUE, path |-> <<"d", "/", "f">>], fs |-> NoFiles]}
StraySettings == {AllNull, CS("a", Null, Null)}

\* A container alone is addressed.
ContainerInputs ==
    {[params |-> Params(check, ValidName, blob, tr, force, state, tags, purge, content),
      store |-> st, fs |-> tr.fs] :
        check \in BOOLEAN, blob \in {Null, ""}, tr \in StrayTransfers, force \in BOOLEAN,
        state \in {"present", "absent"}, tags \in DeclaredTags, purge \in BOOLEAN,
        content \in StraySettings,
        st \in {NoContainer} \cup Containers(CurrentTags, {NoBlob, PlainBlob})}

\* A blob is to be present.
BlobInputs ==
    {[params |-> Params(check, ValidName, BlobName, tr, force, "present", tags, purge, content),
      store |-> st, fs |-> tr.fs] :
        check \in BOOLEAN, tr \in Transfers, force \in BOOLEAN,
        tags \in DeclaredTags, purge \in BOOLEAN, content \in DeclaredSettings,
        st \in {NoContainer} \cup Containers({{}}, {NoBlob} \cup StoredBlobs)}

\* A blob is to be absent.
BlobAbsentInputs ==
    {[params |-> Params(check, ValidName, BlobName, tr, force, "absent", tags, FALSE, content),
      store |-> st, fs |-> tr.fs] :
        check \in BOOLEAN, tr \in StrayTransfers, force \in BOOLEAN,
        tags \in DeclaredTags, content \in StraySettings,
        st \in {NoContainer} \cup Containers({{}}, {NoBlob, PlainBlob})}

\* The container name is refused.
BadNameInputs ==
    {[params |-> Params(check, name, blob, NoTransfer, FALSE, state, NoTags, FALSE, AllNull),
      store |-> NoContainer, fs |-> NoFiles] :
        check \in BOOLEAN, name \in BadNames, blob \in {Null, BlobName},
        state \in {"present", "absent"}}

Inputs == ContainerInputs \cup BlobInputs \cup BlobAbsentInputs \cup BadNameInputs

-----------------------------------------------------------------------------

Init ==
    \E w \in Inputs :
        /\ params = w.params
        /\ store = w.store
        /\ fs = w.fs
        /\ pc = "start"
        /\ container_obj = EmptyContainerObj
        /\ blob_obj = EmptyBlobObj
        /\ dest = w.params.dest.path
        /\ results = InitResults
        /\ calls = <<>>
        /\ entered = <<>>
        /\ failure = "none"
        /\ faulty = FALSE
        /\ phase = "first"
        /\ world0 = [store |-> w.store, fs |-> w.fs]
        /\ first = [pc |-> "none", changed |-> FALSE, actions |-> <<>>]

Next ==
    \/ Validate
    \/ ReadCurrent
    \/ PresentContainer
    \/ PresentTransfer
    \/ PresentTags
    \/ PresentContent
    \/ Absent
    \/ Rerun
    \/ Preview

Spec == Init /\ [][Next]_vars

-----------------------------------------------------------------------------
(* What the claims speak of *)

WasEntered(method) == \E i \in 1..Len(entered) : entered[i] = method

HasAction(kind) == \E i \in 1..Len(results.actions) : results.actions[i].kind = kind

ActionOf(kind, path) ==
    [kind |-> kind, container |-> params.container, blob |-> params.blob, path |-> path]

\* The container, and the targeted blob, were there when the invocation started.
ContainerWasThere == world0.store.exists
BlobWasThere == world0.store.exists /\ world0.store.blob.exists

-----------------------------------------------------------------------------
(* C1: with state=absent and no blob targeted, an existing container that   *)
(* holds at least one blob is left alone unless force is set: delete_container *)
(* is never entered, no action is recorded and changed stays false.  With   *)
(* force, or with no blob in the container, a completed invocation has      *)
(* entered delete_container once, reports changed=true with the single      *)
(* action "deleted container <name>", and (outside check mode) the container *)
(* is gone from the store.                                                  *)

C1_Case == params.state = "absent" /\ ~Truthy(params.blob) /\ ContainerWasThere

C1_ContainerDeletion ==
    C1_Case =>
        IF BlobCount(world0.store) > 0 /\ ~params.force
        THEN /\ ~WasEntered("delete_container")
             /\ results.actions = <<>>
             /\ ~results.changed
             /\ store = world0.store
        ELSE pc = "done" =>
                /\ entered = <<"delete_container">>
                /\ results.changed
                /\ results.actions = <<ActionOf("deleted container", <<>>)>>
                /\ ~params.check_mode => ~store.exists

C1_Witness ==
    /\ C1_Case
    /\ pc = "done"
    /\ ~params.check_mode
    /\ params.force
    /\ BlobCount(world0.store) > 0
    /\ ~store.exists
    /\ results.changed

-----------------------------------------------------------------------------
(* C2: with state=present, a blob targeted and a valid src, an existing blob *)
(* is not uploaded over unless force is set: upload_blob is not entered, the *)
(* blob keeps its payload, no "created blob" action is recorded and the     *)
(* transfer step leaves changed=false.  When the blob is absent or force is *)
(* set, an invocation that got past the transfer step has entered           *)
(* upload_blob, has changed=true and the action "created blob <blob> from   *)
(* <src>", and (outside check mode) the blob holds the payload of src.      *)

C2_Case ==
    /\ params.state = "present"
    /\ Truthy(params.blob)
    /\ PathTruthy(params.src)
    /\ fs.src_kind = "file"

C2_PastTransfer == pc \in {"tags", "content", "done"}

C2_UploadOnlyAbsentOrForced ==
    C2_Case =>
        IF BlobWasThere /\ ~params.force
        THEN /\ ~WasEntered("upload_blob")
             /\ ~HasAction("created blob")
             /\ store.blob.payload = world0.store.blob.payload
             /\ pc = "tags" => ~results.changed /\ results.actions = <<>>
        ELSE C2_PastTransfer =>
                /\ WasEntered("upload_blob")
                /\ results.changed
                /\ \E i \in 1..Len(results.actions) :
                      results.actions[i] = ActionOf("created blob", params.src.path)
                /\ ~params.check_mode =>
                      store.blob.exists /\ store.blob.payload = SrcPayload

C2_Witness ==
    /\ C2_Case
    /\ pc = "done"
    /\ ~params.check_mode
    /\ params.force
    /\ BlobWasThere
    /\ world0.store.blob.payload = BlobPayload
    /\ store.blob.payload = SrcPayload
    /\ HasAction("created blob")

-----------------------------------------------------------------------------
(* C3: with state=present, a blob targeted and dest given, in a normal and  *)
(* in a check-mode invocation alike, a destination file that already exists *)
(* is not downloaded over unless force is set: download_blob is not entered *)
(* and no "downloaded blob" action is recorded.                             *)

C3_Case ==
    /\ params.state = "present"
    /\ Truthy(params.blob)
    /\ PathTruthy(params.dest)
    /\ IsFile(world0.fs, Target(params.dest.path))
    /\ ~params.force

C3_DownloadRefusedOverExistingFile ==
    C3_Case => ~WasEntered("download_blob") /\ ~HasAction("downloaded blob")

-----------------------------------------------------------------------------
(* C4: a check-mode invocation changes nothing: at every point the remote   *)
(* store (container, its tags, the blobs, their payload, tags and content   *)
(* settings) and the local filesystem (files and directories) are what they *)
(* were when the invocation started.                                        *)

C4_CheckModeChangesNothing ==
    params.check_mode => store = world0.store /\ fs = world0.fs

\* A check-mode run that reports the deletion of a container that is still there.
C4_Witness ==
    /\ params.check_mode
    /\ pc = "done"
    /\ HasAction("deleted container")
    /\ store.exists
    /\ store = world0.store

-----------------------------------------------------------------------------
(* C5: the check-mode invocation previews the normal one: started from the  *)
(* same store and filesystem with the same parameters, and with no call     *)
(* failing for a reason of the store's own, either both fail or both        *)
(* complete with the same changed flag and the same list of actions.        *)

C5_PreviewMatchesNormalRun ==
    (phase = "preview" /\ Finished /\ ~faulty) =>
        \/ pc = "failed" /\ first.pc = "failed"
        \/ /\ pc = "done"
           /\ first.pc = "done"
           /\ results.changed = first.changed
           /\ results.actions = first.actions

-----------------------------------------------------------------------------
(* C6: an invocation that fails on a validation error (the container name,  *)
(* or a source file that is missing, no regular file or unreadable) has     *)
(* issued no remote call, neither a read nor a mutation.                    *)

C6_ValidationBeforeRemoteCalls ==
    failure = "validation" => calls = <<>>

-----------------------------------------------------------------------------
(* C7: a failed remote call is fatal.  Once a call of the invocation has    *)
(* failed, the invocation issues no further remote call (so the failed call *)
(* is not retried), records no further action and enters no further method, *)
(* and the store and the filesystem stay as they were: what the invocation  *)
(* had applied before the failure is neither undone nor added to.           *)

CallFailed == \E i \in 1..Len(calls) : ~calls[i].ok

C7_RemoteFailureIsFatal ==
    [][(CallFailed /\ phase' = phase) =>
          /\ calls' = calls
          /\ entered' = entered
          /\ results' = results
          /\ store' = store
          /\ fs' = fs
          /\ pc = "failed"]_vars

\* The upload failed after this invocation had created the container.
C7_Witness ==
    /\ pc = "failed"
    /\ failure = "remote"
    /\ ~calls[Len(calls)].ok
    /\ calls[Len(calls)].name = "create_blob_from_path"
    /\ ~ContainerWasThere
    /\ store.exists
    /\ results.actions = <<ActionOf("created container", <<>>)>>

-----------------------------------------------------------------------------
(* C8: with state=present and the targeted blob in the store, the content   *)
(* step enters update_blob_content_settings if and only if at least one of  *)
(* the six content fields is supplied and the record of the six parameters  *)
(* differs from the content settings the blob has at that moment.           *)

ContentFields ==
    {"content_type", "content_encoding", "content_language", "content_disposition",
     "cache_control", "content_md5"}

AnySupplied == \E f \in ContentFields : params.content[f] /= Null
AnyNonEmpty == \E f \in ContentFields : params.content[f] \notin {Null, ""}

C8_AtContentStep == pc = "content" /\ store.exists /\ store.blob.exists

C8_UpdateEntered ==
    /\ Len(entered') = Len(entered) + 1
    /\ entered'[Len(entered')] = "update_blob_content_settings"

C8_UpdateIffSuppliedAndDiffer ==
    [][C8_AtContentStep =>
          (C8_UpdateEntered <=>
              (AnySupplied /\ store.blob.content_settings /= params.content))]_vars

(* C8 as amended: ... if and only if at least one of the six content fields *)
(* is supplied with a non-empty value and the record of the six parameters  *)
(* differs from the content settings the blob has at that moment; with no   *)
(* content field supplied the update is never entered.                      *)

C8_UpdateIffNonEmptyAndDiffer ==
    [][C8_AtContentStep =>
          /\ C8_UpdateEntered <=>
                (AnyNonEmpty /\ store.blob.content_settings /= params.content)
          /\ ~AnySupplied => entered' = entered]_vars

\* The update replaced all six fields: the md5 the blob had is gone.
C8_Witness ==
    /\ pc = "done"
    /\ ~params.check_mode
    /\ WasEntered("update_blob_content_settings")
    /\ BlobWasThere
    /\ world0.store.blob.content_settings = CS("a", Null, "m")
    /\ store.blob.content_settings = CS("a", Null, Null)

-----------------------------------------------------------------------------
(* C9: the reconciler is idempotent.  With force unset, when a normal       *)
(* invocation has completed and the same task is run again on what it left, *)
(* with no call failing for a reason of the store's own, the second         *)
(* invocation completes with changed=false and no action, the tags          *)
(* included.                                                                *)

C9_SecondRunChangesNothing ==
    (phase = "again" /\ Finished /\ ~params.force /\ ~faulty) =>
        /\ pc = "done"
        /\ ~results.changed
        /\ results.actions = <<>>
        /\ store = world0.store
        /\ fs = world0.fs

\* The second run after a first one that created the container, uploaded the
\* blob and set its tags with the upload.
C9_Witness ==
    /\ phase = "again"
    /\ pc = "done"
    /\ ~params.force
    /\ Len(first.actions) = 2
    /\ first.actions[2].kind = "created blob"
    /\ params.tags.map /= {}
    /\ store.blob.tags = params.tags.map
    /\ ~results.changed

-----------------------------------------------------------------------------
(* C10: the actions are recorded in the order of the steps, one at most per *)
(* concern.  With state=present the list is a subsequence of                *)
(* [created container, created blob or downloaded blob, updated tags (of    *)
(* the container or of the blob), updated blob content settings] with no    *)
(* kind twice; with state=absent it holds at most one action, "deleted      *)
(* container" or "deleted blob".                                            *)

Concern(kind) ==
    CASE kind = "created container" -> 1
      [] kind \in {"created blob", "downloaded blob"} -> 2
      [] kind \in {"updated container tags", "updated blob tags"} -> 3
      [] kind = "updated blob content settings" -> 4
      [] OTHER -> 0

C10_ActionsInStepOrder ==
    LET a == results.actions
    IN  IF params.state = "present"
        THEN /\ \A i \in 1..Len(a) : Concern(a[i].kind) > 0
             /\ \A i \in 1..(Len(a) - 1) : Concern(a[i].kind) < Concern(a[i + 1].kind)
        ELSE /\ Len(a) <= 1
             /\ \A i \in 1..Len(a) : a[i].kind \in {"deleted container", "deleted blob"}

\* A download, then the blob's tags, then its content settings.
C10_Witness ==
    /\ pc = "done"
    /\ ~params.check_mode
    /\ Len(results.actions) = 3
    /\ results.actions[1].kind = "downloaded blob"
    /\ results.actions[2].kind = "updated blob tags"
    /\ results.actions[3].kind = "updated blob content settings"


-----------------------------------------------------------------------------
(* C11: the container facts are returned always.  Every invocation that     *)
(* completes without failure reports a container snapshot, a non-empty dict *)
(* naming the target container, also when it found nothing to change; the   *)
(* blob snapshot is non-empty only when a blob was targeted.                *)

C11_ContainerFactsAlways ==
    pc = "done" =>
        /\ results.container.present
        /\ results.container.name = params.container
        /\ BlobTruthy(results.blob) => Truthy(params.blob)


-----------------------------------------------------------------------------
(* C12: in a normal invocation with state=present and a blob targeted, the  *)
(* calls that need the blob (set_blob_metadata, set_blob_properties,        *)
(* get_blob_to_path) are issued only while the blob is in the store; with   *)
(* the blob absent no tag update, content-settings update or download is    *)
(* attempted on it, and the content step does not crash on the empty blob   *)
(* record.                                                                  *)

C12_Case == ~params.check_mode /\ params.state = "present" /\ Truthy(params.blob)

BlobCalls == {"set_blob_metadata", "set_blob_properties", "get_blob_to_path"}

BlobIsThere == store.exists /\ store.blob.exists

C12_BlobCallsNeedTheBlob ==
    [][(C12_Case /\ phase' = phase) =>
          /\ \A i \in (Len(calls) + 1)..Len(calls') :
                calls'[i].name \in BlobCalls => BlobIsThere
          /\ (pc = "content" /\ ~BlobIsThere) => failure' /= "crash"]_vars


-----------------------------------------------------------------------------
(* C13: the result accumulator.  Before and after every step of an          *)
(* invocation changed is true exactly when the actions list is non-empty;   *)
(* within one invocation changed never goes from true back to false, and    *)
(* the actions list only grows at its end: the list before a step is a      *)
(* prefix of the list after it.  Each method sets the flag and appends the  *)
(* action in two adjacent statements with nothing in between that can fail  *)
(* or return, so the points compared are those between method calls.        *)

ChangedIffActions(r) == r.changed <=> (r.actions /= <<>>)

C13_ChangedIffActionsAndMonotone ==
    [][/\ ChangedIffActions(results)
       /\ ChangedIffActions(results')
       /\ phase' = phase =>
             /\ results.changed => results'.changed
             /\ Len(results.actions) <= Len(results'.actions)
             /\ SubSeq(results'.actions, 1, Len(results.actions)) = results.actions]_vars

\* Two actions recorded in one invocation, the flag raised.
C13_Witness ==
    /\ phase = "first"
    /\ results.changed
    /\ Len(results.actions) >= 2

====
